---- MODULE Spec2Model ----
(***************************************************************************)
(* A model of the webex-skill scripts: scripts/fetch-unread.mjs (the       *)
(* file-writing fetch flow: normalize rooms, filter by type and trailing   *)
(* window, fan out one message fetch per unread room, join, bot filter,    *)
(* truncate, retitle, slim, assemble, write) and its pure helpers, and     *)
(* scripts/send-message.mjs (the send flow: credential, recipient, body,   *)
(* handshake, one message creation call).                                  *)
(*                                                                         *)
(* JavaScript values: undefined/null are the one value NULL; a string is a *)
(* TLA+ string; an array is a sequence; an object is a record (a function  *)
(* from field names) whose absent fields are either left out of its DOMAIN *)
(* or hold NULL. A timestamp is an integer number of milliseconds; NaN is  *)
(* the empty tuple and a finite number t the 1-tuple <<t>> where a value   *)
(* may be either.                                                          *)
(***************************************************************************)
EXTENDS Integers, Sequences, FiniteSets, TLC

VARIABLES
    pc,               \* position of main() in the script that runs
    env,              \* process.env / argv / stdin of the run
    activityHours,    \* const activityHours (main)
    maxRoomsToReturn, \* const maxRoomsToReturn (main)
    rooms,            \* extractItems(roomsResponse): the provider's raw rooms
    meId,             \* me?.id
    normalized,       \* const normalized (main)
    unread,           \* const unread (main)
    pending,          \* indices of unread whose fetch has not settled
    results,          \* Promise.all's result slots: slot -> room entry
    outcome,          \* what the provider answered for each unread index
    outOfOrder,       \* some fetch settled while an earlier one was pending
    payload,          \* const payload (main)
    file,             \* content of the output file, NULL if not written
    stdout,           \* JSON lines printed by out()
    exitCode,         \* process exit code, NULL while running
    calls,            \* the provider calls the run has issued, in order
    fn,               \* pure-function harness: the function under test
    arg,              \* pure-function harness: its input
    ret               \* pure-function harness: its result

vars == <<pc, env, activityHours, maxRoomsToReturn, rooms, meId, normalized,
          unread, pending, results, outcome, outOfOrder, payload, file,
          stdout, exitCode, calls, fn, arg, ret>>

flowVars == <<pc, env, activityHours, maxRoomsToReturn, rooms, meId,
              normalized, unread, pending, results, outcome, outOfOrder,
              payload, file, stdout, exitCode, calls>>

harnessVars == <<fn, arg, ret>>

-----------------------------------------------------------------------------
(* JavaScript values *)

NULL == "<null>"

\* JavaScript truthiness of a string-or-null value: null, undefined and ''
\* are falsy.
Falsy(v) == v = NULL \/ v = ""

\* a || b
Or(a, b) == IF Falsy(a) THEN b ELSE a

\* a ?? b
Coalesce(a, b) == IF a = NULL THEN b ELSE a

\* obj?.field, undefined when the field is absent
Get(obj, f) == IF f \in DOMAIN obj THEN obj[f] ELSE NULL

Min(a, b) == IF a < b THEN a ELSE b

\* String.prototype.endsWith
EndsWith(s, suffix) ==
    /\ Len(s) >= Len(suffix)
    /\ SubSeq(s, Len(s) - Len(suffix) + 1, Len(s)) = suffix

-----------------------------------------------------------------------------
(* Dates.  new Date(value).getTime() on the date strings of the model: an  *)
(* ISO-8601 string parses to its milliseconds since the epoch, any other   *)
(* string to NaN.  The clock of the run, Date.now(), reads                 *)
(* 1970-01-05T04:00:00Z, one hundred hours after the epoch.                *)

MsPerHour == 60 * 60 * 1000

DateTable ==
    [s \in {"1969-12-31T23:00:00Z", "1970-01-03T22:00:00Z",
            "1970-01-05T02:00:00Z", "1970-01-05T03:00:00Z",
            "1970-01-05T04:00:00Z", "1970-01-05T05:00:00Z"} |->
        CASE s = "1969-12-31T23:00:00Z" -> 0 - MsPerHour
          [] s = "1970-01-03T22:00:00Z" -> 70 * MsPerHour
          [] s = "1970-01-05T02:00:00Z" -> 98 * MsPerHour
          [] s = "1970-01-05T03:00:00Z" -> 99 * MsPerHour
          [] s = "1970-01-05T04:00:00Z" -> 100 * MsPerHour
          [] s = "1970-01-05T05:00:00Z" -> 101 * MsPerHour]

DateGetTime(value) ==
    IF value \in DOMAIN DateTable THEN <<DateTable[value]>> ELSE <<>>

DateNow == 100 * MsPerHour

toTs(value) ==
    IF Falsy(value) THEN 0
    ELSE LET t == DateGetTime(value) IN IF t # <<>> THEN t[1] ELSE 0

-----------------------------------------------------------------------------
(* Room Normalizer *)

\* The mutant of normalizeRoom: the provider's isUnread flag is copied when
\* the record carries one.
normalizeRoomCopiesFlag(room) ==
    LET lastActivityDate == Or(Or(Get(room, "lastActivityDate"),
                                  Get(room, "lastActivity")), NULL)
        lastSeenDate == Or(Or(Get(room, "lastSeenDate"),
                              Get(room, "lastSeenActivityDate")), NULL)
    IN [id |-> room.id,
        title |-> Or(Get(room, "title"), room.id),
        type |-> Or(Or(Get(room, "type"), Get(room, "roomType")), "group"),
        lastActivityDate |-> lastActivityDate,
        lastSeenDate |-> lastSeenDate,
        isUnread |-> IF "isUnread" \in DOMAIN room THEN room.isUnread
                     ELSE toTs(lastActivityDate) > toTs(lastSeenDate)]

normalizeRoom(room) ==
    LET lastActivityDate == Or(Or(Get(room, "lastActivityDate"),
                                  Get(room, "lastActivity")), NULL)
        lastSeenDate == Or(Or(Get(room, "lastSeenDate"),
                              Get(room, "lastSeenActivityDate")), NULL)
    IN [id |-> room.id,
        title |-> Or(Get(room, "title"), room.id),
        type |-> Or(Or(Get(room, "type"), Get(room, "roomType")), "group"),
        lastActivityDate |-> lastActivityDate,
        lastSeenDate |-> lastSeenDate,
        isUnread |-> toTs(lastActivityDate) > toTs(lastSeenDate)]

-----------------------------------------------------------------------------
(* Sorting.  Array.prototype.sort is stable: with the comparator           *)
(* (a, b) => key(a) - key(b) the elements come out in ascending key order  *)
(* and elements of equal key keep their input order.  StableSortIdx gives  *)
(* the permutation, as the sequence of input indices in output order, by   *)
(* insertion of the n-th element behind every earlier element whose key is *)
(* not greater.                                                            *)

RECURSIVE StableSortIdx(_, _)
StableSortIdx(keys, n) ==
    IF n = 0 THEN <<>>
    ELSE LET prev == StableSortIdx(keys, n - 1)
             p == Cardinality({j \in 1..(n - 1) : keys[j] <= keys[n]})
         IN SubSeq(prev, 1, p) \o <<n>> \o SubSeq(prev, p + 1, n - 1)

SortByKeys(s, keys) ==
    LET idx == StableSortIdx(keys, Len(s))
    IN [p \in 1..Len(s) |-> s[idx[p]]]

\* Array.prototype.slice(0, n)
Slice0(s, n) == SubSeq(s, 1, Min(n, Len(s)))

-----------------------------------------------------------------------------
(* Program constants *)

DEFAULT_MAX_RECENT == 30
MAX_RECENT_CAP == 1000
ROOMS_SCAN_LIMIT == 100
MESSAGES_PAGE_SIZE == 100
DEFAULT_ACTIVITY_HOURS == 24
MIN_ACTIVITY_HOURS == 1
MAX_ACTIVITY_HOURS == 720
ROOM_TYPES == {"direct", "group"}
BOT_EMAIL_SUFFIX == "@webex.bot"

-----------------------------------------------------------------------------
(* Activity Filter *)

isOutputRoom(room) == Get(room, "type") \in ROOM_TYPES

\* The mutant of inLastXhours: the window is always the default 24 hours.
inLastXhoursDefaultWindow(room, hours) ==
    LET ACTIVITY_FROM_MS == DEFAULT_ACTIVITY_HOURS * 60 * 60 * 1000
        cutoff == DateNow - ACTIVITY_FROM_MS
    IN toTs(room.lastActivityDate) >= cutoff

inLastXhours(room, hours) ==
    LET ACTIVITY_FROM_MS == hours * 60 * 60 * 1000
        cutoff == DateNow - ACTIVITY_FROM_MS
    IN toTs(room.lastActivityDate) >= cutoff

-----------------------------------------------------------------------------
(* Unread Message Resolver *)

\* The mutant of isUnreadMessage: the author is not looked at.
isUnreadMessageAnyAuthor(message, lastSeenTs, me) ==
    LET createdTs == toTs(Get(message, "created"))
    IN createdTs > lastSeenTs

isUnreadMessage(message, lastSeenTs, me) ==
    LET createdTs == toTs(Get(message, "created"))
    IN IF createdTs <= lastSeenTs THEN FALSE
       ELSE Get(message, "personId") # me

\* getUnreadMessages after the await: messages is extractItems(response).
getUnreadMessages(messages, room, me) ==
    LET lastSeenTs == toTs(room.lastSeenDate)
        kept == SelectSeq(messages,
                          LAMBDA m : isUnreadMessage(m, lastSeenTs, me))
    IN SortByKeys(kept, [i \in 1..Len(kept) |-> toTs(Get(kept[i], "created"))])

\* getUnreadMessageCount after the await (the stdout variant of the script).
getUnreadMessageCount(messages, room, me) ==
    LET lastSeenTs == toTs(room.lastSeenDate)
    IN Len(SelectSeq(messages,
           LAMBDA m : LET createdTs == toTs(Get(m, "created"))
                      IN IF createdTs <= lastSeenTs THEN FALSE
                         ELSE Get(m, "personId") # me))

roomMentionsMe(unreadMessages, me) ==
    IF Falsy(me) THEN FALSE
    ELSE \E i \in 1..Len(unreadMessages) :
            /\ "mentionedPeople" \in DOMAIN unreadMessages[i]
            /\ \E k \in 1..Len(unreadMessages[i].mentionedPeople) :
                   unreadMessages[i].mentionedPeople[k] = me

\* { ...room, unreadMessages, unreadMessageCount, mentionedMe }
WithMessages(room, unreadMessages, unreadMessageCount, mentionedMe) ==
    [id |-> room.id, title |-> room.title, type |-> room.type,
     lastActivityDate |-> room.lastActivityDate,
     lastSeenDate |-> room.lastSeenDate, isUnread |-> room.isUnread,
     unreadMessages |-> unreadMessages,
     unreadMessageCount |-> unreadMessageCount,
     mentionedMe |-> mentionedMe]

\* The mutant of attachEntry: the catch branch keeps the flag of a room it
\* could not read as "mentioned", and counts one message.
attachEntryCatchCounts(room, answer, me) ==
    IF answer.ok
    THEN LET unreadMessages == getUnreadMessages(answer.items, room, me)
         IN WithMessages(room, unreadMessages, Len(unreadMessages),
                         roomMentionsMe(unreadMessages, me))
    ELSE WithMessages(room, <<>>, 1, TRUE)

\* The mutant of attachEntry: mentions are looked for in every message of
\* the page.
attachEntryMentionsInAnyMessage(room, answer, me) ==
    IF answer.ok
    THEN LET unreadMessages == getUnreadMessages(answer.items, room, me)
         IN WithMessages(room, unreadMessages, Len(unreadMessages),
                         roomMentionsMe(answer.items, me))
    ELSE WithMessages(room, <<>>, 0, FALSE)

\* One element of attachUnreadMessages' map: the value the async callback
\* returns once messages.list has answered (ok, with its items) or thrown.
attachEntry(room, answer, me) ==
    IF answer.ok
    THEN LET unreadMessages == getUnreadMessages(answer.items, room, me)
         IN WithMessages(room, unreadMessages, Len(unreadMessages),
                         roomMentionsMe(unreadMessages, me))
    ELSE WithMessages(room, <<>>, 0, FALSE)

-----------------------------------------------------------------------------
(* Bot/Noise Filter *)

IsBotMessage(m) ==
    EndsWith(Coalesce(Get(m, "personEmail"), ""), BOT_EMAIL_SUFFIX)

\* The mutant of roomHasNoBotMessages: a room is dropped when every unread
\* message is from a bot (vacuously so for an empty list).
roomHasNoBotMessagesEvery(room) ==
    LET unreadMessages == IF "unreadMessages" \in DOMAIN room
                          THEN room.unreadMessages ELSE <<>>
    IN ~(\A i \in 1..Len(unreadMessages) : IsBotMessage(unreadMessages[i]))

\* The mutant of roomHasNoBotMessages: the filter keeps every room.
roomHasNoBotMessagesKeepsAll(room) == TRUE

roomHasNoBotMessages(room) ==
    LET unreadMessages == IF "unreadMessages" \in DOMAIN room
                          THEN room.unreadMessages ELSE <<>>
    IN ~(\E i \in 1..Len(unreadMessages) : IsBotMessage(unreadMessages[i]))

-----------------------------------------------------------------------------
(* Message Slimmer & People Index, Output Assembler *)

WithTitle(room, title) == [room EXCEPT !.title = title]

\* The mutant of setDirectRoomTitle: the title is the sender of the first
\* unread message.
setDirectRoomTitleFirst(room) ==
    IF room.type # "direct" \/ Len(room.unreadMessages) = 0 THEN room
    ELSE LET email == Get(room.unreadMessages[1], "personEmail")
         IN IF ~Falsy(email) THEN WithTitle(room, email) ELSE room

\* One iteration of setDirectRoomTitles' loop.
setDirectRoomTitle(room) ==
    IF room.type # "direct" \/ Len(room.unreadMessages) = 0 THEN room
    ELSE LET email == Get(room.unreadMessages[Len(room.unreadMessages)],
                          "personEmail")
         IN IF ~Falsy(email) THEN WithTitle(room, email) ELSE room

setDirectRoomTitles(roomList) ==
    [i \in 1..Len(roomList) |-> setDirectRoomTitle(roomList[i])]

Without(message, fields) ==
    [f \in (DOMAIN message) \ fields |-> message[f]]

\* The mutant of slimMessage: markdown wins over html.
slimMessageMarkdownFirst(message) ==
    LET m1 == Without(message,
                      {"roomId", "personId", "roomType", "created", "updated"})
        m2 == IF Get(m1, "html") # NULL THEN Without(m1, {"text"}) ELSE m1
    IN IF Get(m2, "markdown") # NULL THEN Without(m2, {"html", "text"})
       ELSE m2

\* The mutant of slimMessage: the updated field is left in place.
slimMessageKeepsUpdated(message) ==
    LET m1 == Without(message, {"roomId", "personId", "roomType", "created"})
        m2 == IF Get(m1, "markdown") # NULL THEN Without(m1, {"text"}) ELSE m1
    IN IF Get(m2, "html") # NULL THEN Without(m2, {"markdown", "text"})
       ELSE m2

slimMessage(message) ==
    LET m1 == Without(message,
                      {"roomId", "personId", "roomType", "created", "updated"})
        m2 == IF Get(m1, "markdown") # NULL THEN Without(m1, {"text"}) ELSE m1
    IN IF Get(m2, "html") # NULL THEN Without(m2, {"markdown", "text"})
       ELSE m2

RECURSIVE FlattenMessages(_)
FlattenMessages(roomList) ==
    IF roomList = <<>> THEN <<>>
    ELSE Head(roomList).unreadMessages \o FlattenMessages(Tail(roomList))

\* The mutant of PeopleFold: the last writer wins.
RECURSIVE PeopleFoldLastWins(_, _)
PeopleFoldLastWins(messages, people) ==
    IF messages = <<>> THEN people
    ELSE LET email == Coalesce(Get(Head(messages), "personEmail"), NULL)
             pid == Get(Head(messages), "personId")
         IN PeopleFoldLastWins(Tail(messages),
                IF ~Falsy(email) /\ ~Falsy(pid)
                THEN (email :> pid) @@ people
                ELSE people)

\* The people part of buildPeopleAndSlimMessages: the loop over the rooms'
\* messages in room-then-message order, first writer wins.
RECURSIVE PeopleFold(_, _)
PeopleFold(messages, people) ==
    IF messages = <<>> THEN people
    ELSE LET email == Coalesce(Get(Head(messages), "personEmail"), NULL)
             pid == Get(Head(messages), "personId")
         IN PeopleFold(Tail(messages),
                       IF ~Falsy(email) /\ ~Falsy(pid)
                          /\ email \notin DOMAIN people
                       THEN people @@ (email :> pid)
                       ELSE people)

buildPeople(roomsWithMessages) ==
    PeopleFold(FlattenMessages(roomsWithMessages), [e \in {} |-> NULL])

\* The mutant of slimRooms: the slimmed messages come out newest first.
slimRoomsNewestFirst(roomsWithMessages) ==
    [i \in 1..Len(roomsWithMessages) |->
        [roomsWithMessages[i] EXCEPT !.unreadMessages =
            [k \in 1..Len(@) |-> slimMessage(@[Len(@) + 1 - k])]]]

\* The slimming part of buildPeopleAndSlimMessages: every message of every
\* room is slimmed in place.
slimRooms(roomsWithMessages) ==
    [i \in 1..Len(roomsWithMessages) |->
        [roomsWithMessages[i] EXCEPT !.unreadMessages =
            [k \in 1..Len(@) |-> slimMessage(@[k])]]]

\* The mutant of filterRooms: the list is not cut to the bound.
filterRoomsUncut(unreadWithMessages, maxRooms) ==
    SelectSeq(SelectSeq(unreadWithMessages, isOutputRoom), roomHasNoBotMessages)

\* const roomsFiltered = unreadWithMessages.filter(isOutputRoom)
\*     .filter(roomHasNoBotMessages).slice(0, maxRoomsToReturn)
filterRooms(unreadWithMessages, maxRooms) ==
    Slice0(SelectSeq(SelectSeq(unreadWithMessages, isOutputRoom),
                     roomHasNoBotMessages),
           maxRooms)

\* The mutant of normalizeRooms: the rooms are left in the provider's order.
normalizeRoomsUnsorted(roomItems, hours) ==
    LET mapped == [i \in 1..Len(roomItems) |-> normalizeRoom(roomItems[i])]
        typed == SelectSeq(mapped, LAMBDA r : r.type \in ROOM_TYPES)
    IN SelectSeq(typed, LAMBDA r : inLastXhours(r, hours))

\* const normalized = rooms.map(normalizeRoom).filter(type).filter(window)
\*     .sort((a, b) => toTs(b.lastActivityDate) - toTs(a.lastActivityDate))
normalizeRooms(roomItems, hours) ==
    LET mapped == [i \in 1..Len(roomItems) |-> normalizeRoom(roomItems[i])]
        typed == SelectSeq(mapped, LAMBDA r : r.type \in ROOM_TYPES)
        recent == SelectSeq(typed, LAMBDA r : inLastXhours(r, hours))
    IN SortByKeys(recent,
                  [i \in 1..Len(recent) |->
                      0 - toTs(recent[i].lastActivityDate)])

\* The mutant of selectUnread: every room of the Activity Filter's result
\* goes on to message resolution.
selectUnreadAll(normalizedRooms) == normalizedRooms

\* const unread = normalized.filter((r) => r.isUnread)
selectUnread(normalizedRooms) ==
    SelectSeq(normalizedRooms, LAMBDA r : r.isUnread)

\* The mutant of makeStats: read is what is left of total after the final
\* list.
makeStatsReadFromFinal(normalizedRooms, unreadRooms, roomsFiltered) ==
    [total |-> Len(normalizedRooms),
     unread |-> Len(roomsFiltered),
     read |-> Len(normalizedRooms) - Len(roomsFiltered)]

\* stats: { total, unread, read } of the payload
makeStats(normalizedRooms, unreadRooms, roomsFiltered) ==
    [total |-> Len(normalizedRooms),
     unread |-> Len(roomsFiltered),
     read |-> Len(normalizedRooms) - Len(unreadRooms)]

\* main from the join to the payload: filter, truncate, retitle, people
\* index, slimming, stats.
assemblePayload(normalizedRooms, unreadRooms, unreadWithMessages, maxRooms) ==
    LET roomsFiltered == setDirectRoomTitles(
                             filterRooms(unreadWithMessages, maxRooms))
        people == buildPeople(roomsFiltered)
    IN [rooms |-> slimRooms(roomsFiltered),
        people |-> people,
        stats |-> makeStats(normalizedRooms, unreadRooms, roomsFiltered),
        error |-> NULL]

-----------------------------------------------------------------------------
(* Options.  parseInt(String(raw), 10): leading blanks are skipped, then an *)
(* optional sign, then the longest run of decimal digits; no digit gives   *)
(* NaN.                                                                    *)

CharAt(s, i) == SubSeq(s, i, i)

DigitChars == "0123456789"

IsDigit(c) == \E d \in 0..9 : CharAt(DigitChars, d + 1) = c

DigitValue(c) == CHOOSE d \in 0..9 : CharAt(DigitChars, d + 1) = c

\* String.prototype.trim() leaves nothing
IsBlank(s) == \A i \in 1..Len(s) : CharAt(s, i) = " "

RECURSIVE DigitsValue(_, _, _, _)
DigitsValue(s, from, to, acc) ==
    IF from > to THEN acc
    ELSE DigitsValue(s, from + 1, to, 10 * acc + DigitValue(CharAt(s, from)))

parseInt10(s) ==
    LET n == Len(s)
        start == CHOOSE i \in 1..(n + 1) :
                    /\ \A j \in 1..(i - 1) : CharAt(s, j) = " "
                    /\ i = n + 1 \/ CharAt(s, i) # " "
        signed == start <= n /\ CharAt(s, start) \in {"-", "+"}
        first == IF signed THEN start + 1 ELSE start
        last == CHOOSE e \in (first - 1)..n :
                    /\ \A j \in first..e : IsDigit(CharAt(s, j))
                    /\ e = n \/ ~IsDigit(CharAt(s, e + 1))
        magnitude == DigitsValue(s, first, last, 0)
    IN IF last < first THEN <<>>
       ELSE IF signed /\ CharAt(s, start) = "-" THEN <<0 - magnitude>>
       ELSE <<magnitude>>

getMaxRoomsToReturn(cliMaxRooms, envMaxRecent) ==
    LET raw == Coalesce(cliMaxRooms, envMaxRecent)
    IN IF raw = NULL \/ raw = "" THEN DEFAULT_MAX_RECENT
       ELSE LET n == parseInt10(raw)
            IN IF n = <<>> \/ n[1] < 1 THEN DEFAULT_MAX_RECENT
               ELSE Min(n[1], MAX_RECENT_CAP)

getActivityHours(cliHours, envActivityHours) ==
    LET raw == Coalesce(cliHours, envActivityHours)
    IN IF raw = NULL \/ raw = "" THEN DEFAULT_ACTIVITY_HOURS
       ELSE LET n == parseInt10(raw)
            IN IF n = <<>> \/ n[1] < MIN_ACTIVITY_HOURS
               THEN DEFAULT_ACTIVITY_HOURS
               ELSE Min(n[1], MAX_ACTIVITY_HOURS)

-----------------------------------------------------------------------------
(* The inputs of the fetch flow *)

\* The provider lists at most MaxRooms rooms in a run of the model.
MaxRooms == 2

ME_ID == "person-me"

Tokens == {NULL, "   ", "secret-token"}

CliHours == {NULL, "1"}

CliMaxRooms == {NULL, "1"}

RoomId(i) == "room-" \o ToString(i)

\* What the provider may report for one room: its type, its last activity
\* (none, two hours ago, now) and when the user last saw it (thirty hours
\* ago, now).
RoomShapes ==
    [type : {"direct", "group", "team"},
     lastActivityDate : {NULL, "1970-01-05T02:00:00Z", "1970-01-05T04:00:00Z"},
     lastSeenDate : {"1970-01-03T22:00:00Z", "1970-01-05T04:00:00Z"}]

RawRoom(i, shape) ==
    [id |-> RoomId(i), title |-> "Project sync", type |-> shape.type,
     lastActivityDate |-> shape.lastActivityDate,
     lastSeenDate |-> shape.lastSeenDate]

RoomLists ==
    UNION {{[i \in 1..n |-> RawRoom(i, shapes[i])] :
               shapes \in [1..n -> RoomShapes]} : n \in 0..MaxRooms}

Message(id, personId, personEmail, created, mentionedPeople) ==
    [id |-> id, roomId |-> "room", roomType |-> "group",
     personId |-> personId, personEmail |-> personEmail,
     created |-> created, text |-> "hello",
     mentionedPeople |-> mentionedPeople]

FromAlice(id, created, mentionedPeople) ==
    Message(id, "person-alice", "alice@example.com", created, mentionedPeople)

FromBot(id, created) ==
    Message(id, "person-bot", "helper@webex.bot", created, <<>>)

FromBob(id, created, mentionedPeople) ==
    Message(id, "person-bob", "bob@example.com", created, mentionedPeople)

FromMe(id, created, mentionedPeople) ==
    Message(id, ME_ID, "me@example.com", created, mentionedPeople)

\* What messages.list may answer for one room, newest first: nothing, one
\* message of a person (mentioning the user), two messages of two persons,
\* a bot and a person, two of a bot, the user's own message and a person's
\* message of thirty hours ago (both mentioning the user).
MessageLists ==
    {<<>>,
     <<FromAlice("m1", "1970-01-05T04:00:00Z", <<ME_ID>>)>>,
     <<FromBob("m1", "1970-01-05T04:00:00Z", <<>>),
       FromAlice("m2", "1970-01-05T03:00:00Z", <<"person-bob">>)>>,
     <<FromBot("m1", "1970-01-05T04:00:00Z"),
       FromAlice("m2", "1970-01-05T03:00:00Z", <<>>)>>,
     <<FromBot("m1", "1970-01-05T04:00:00Z"),
       FromBot("m2", "1970-01-05T03:00:00Z")>>,
     <<FromMe("m1", "1970-01-05T04:00:00Z", <<ME_ID>>),
       FromAlice("m2", "1970-01-03T22:00:00Z", <<ME_ID>>)>>}

NoResults == [k \in {} |-> NULL]

-----------------------------------------------------------------------------
(* The fetch flow: main() of scripts/fetch-unread.mjs *)

Init ==
    /\ pc = "start"
    /\ env \in [token : Tokens, cliHours : CliHours, cliMaxRooms : CliMaxRooms,
                WEBEX_ACTIVITY_HOURS : {NULL}, WEBEX_MAX_RECENT : {NULL}]
    /\ activityHours = 0
    /\ maxRoomsToReturn = 0
    /\ rooms = <<>>
    /\ meId = NULL
    /\ normalized = <<>>
    /\ unread = <<>>
    /\ pending = {}
    /\ results = NoResults
    /\ outcome = NoResults
    /\ outOfOrder = FALSE
    /\ payload = <<>>
    /\ file = <<>>
    /\ stdout = <<>>
    /\ exitCode = <<>>
    /\ calls = <<>>
    /\ fn = "none"
    /\ arg = <<>>
    /\ ret = <<>>

\* process.exit(code), after out(line) when the path prints one.  The
\* process is gone: what remains of the run is its environment, what it
\* printed, its exit code and the file it wrote.
Exit(lines, code) ==
    /\ stdout' = stdout \o lines
    /\ exitCode' = <<code>>
    /\ pc' = "exited"
    /\ activityHours' = 0
    /\ maxRoomsToReturn' = 0
    /\ rooms' = <<>>
    /\ meId' = NULL
    /\ normalized' = <<>>
    /\ unread' = <<>>
    /\ pending' = {}
    /\ results' = NoResults
    /\ outcome' = NoResults
    /\ outOfOrder' = FALSE
    /\ payload' = <<>>
    /\ UNCHANGED <<env, calls, harnessVars>>

\* The mutant of tokenMissing: a token of blanks passes.
tokenMissingEmptyOnly(token) == Falsy(token)

\* !token || !token.trim()
tokenMissing(token) == Falsy(token) \/ IsBlank(token)

\* The provider calls, as the run issues them
Handshake(token) == [api |-> "init", arg |-> [access_token |-> token]]

ListRooms == [api |-> "rooms.listWithReadStatus",
              arg |-> [max |-> ROOMS_SCAN_LIMIT]]

GetMe == [api |-> "people.get", arg |-> [personId |-> "me"]]

ListMessages(room) == [api |-> "messages.list",
                       arg |-> [roomId |-> room.id, max |-> MESSAGES_PAGE_SIZE]]

\* main: the credential check
MissingToken ==
    /\ pc = "start"
    /\ tokenMissing(env.token)
    /\ Exit(<<[rooms |-> <<>>, error |-> "WEBEX_ACCESS_TOKEN required"]>>, 1)
    /\ UNCHANGED file

\* The mutant of ReadOptions: the room listing and the user lookup are
\* issued along with the handshake.
ReadOptionsListsEarly ==
    /\ pc = "start"
    /\ ~tokenMissing(env.token)
    /\ activityHours' = getActivityHours(env.cliHours, env.WEBEX_ACTIVITY_HOURS)
    /\ maxRoomsToReturn' = getMaxRoomsToReturn(env.cliMaxRooms,
                                               env.WEBEX_MAX_RECENT)
    /\ calls' = calls \o <<Handshake(env.token), ListRooms, GetMe>>
    /\ pc' = "initWebex"
    /\ UNCHANGED <<env, rooms, meId, normalized, unread, pending, results,
                   outcome, outOfOrder, payload, file, stdout, exitCode,
                   harnessVars>>

\* main: parseArgs, getActivityHours, getMaxRoomsToReturn, then initWebex
ReadOptions ==
    /\ pc = "start"
    /\ ~tokenMissing(env.token)
    /\ activityHours' = getActivityHours(env.cliHours, env.WEBEX_ACTIVITY_HOURS)
    /\ maxRoomsToReturn' = getMaxRoomsToReturn(env.cliMaxRooms,
                                               env.WEBEX_MAX_RECENT)
    /\ calls' = calls \o <<Handshake(env.token)>>
    /\ pc' = "initWebex"
    /\ UNCHANGED <<env, rooms, meId, normalized, unread, pending, results,
                   outcome, outOfOrder, payload, file, stdout, exitCode,
                   harnessVars>>

\* initWebex: 'ready' fires and webex.canAuthorize holds; main issues the
\* room listing and the user lookup
SdkReady ==
    /\ pc = "initWebex"
    /\ calls' = calls \o <<ListRooms, GetMe>>
    /\ pc' = "listing"
    /\ UNCHANGED <<env, activityHours, maxRoomsToReturn, rooms, meId,
                   normalized, unread, pending, results, outcome, outOfOrder,
                   payload, file, stdout, exitCode, harnessVars>>

\* The mutant of SdkInitFailed: no timer, and a handshake that does not
\* answer is awaited without end.
SdkInitAwaitedForEver ==
    /\ pc = "initWebex"
    /\ FALSE
    /\ UNCHANGED vars

\* initWebex throws ('error' fires, the 60 s timer fires, or the client is
\* not authorized); main's catch warns on stderr and exits 1 without a line
\* on stdout
SdkInitFailed ==
    /\ pc = "initWebex"
    /\ Exit(<<>>, 1)
    /\ UNCHANGED file

\* Promise.all([rooms.listWithReadStatus, people.get]) rejects: main().catch
ListingRejected ==
    /\ pc = "listing"
    /\ Exit(<<[outputPath |-> NULL, error |-> "request failed"]>>, 1)
    /\ UNCHANGED file

\* Promise.all([rooms.listWithReadStatus, people.get]) resolves: normalize,
\* filter, sort, split, and launch one message fetch per unread room
ListingResolved ==
    /\ pc = "listing"
    /\ \E roomItems \in RoomLists :
          /\ rooms' = roomItems
          /\ normalized' = normalizeRooms(roomItems, activityHours)
    /\ meId' = ME_ID
    /\ unread' = selectUnread(normalized')
    /\ pending' = 1..Len(unread')
    /\ calls' = calls \o [k \in 1..Len(unread') |-> ListMessages(unread'[k])]
    /\ pc' = "fetching"
    /\ UNCHANGED <<env, activityHours, maxRoomsToReturn, results, outcome,
                   outOfOrder, payload, file, stdout, exitCode, harnessVars>>

\* The mutant of ResultSlot: a value is pushed when its fetch settles.
ResultSlotPush(i, slots) == Cardinality(DOMAIN slots) + 1

\* Promise.all keeps the value of the i-th promise at index i.
ResultSlot(i, slots) == i

Settle(i, answer) ==
    /\ outcome' = outcome @@ (i :> answer)
    /\ results' = results @@
                    (ResultSlot(i, results) :> attachEntry(unread[i], answer, meId))
    /\ pending' = pending \ {i}
    /\ outOfOrder' = (outOfOrder \/ \E j \in pending : j < i)
    /\ UNCHANGED <<pc, env, activityHours, maxRoomsToReturn, rooms, meId,
                   normalized, unread, payload, file, stdout, exitCode, calls,
                   harnessVars>>

\* messages.list answers for the i-th unread room
FetchResolved(i) ==
    /\ pc = "fetching"
    /\ i \in pending
    /\ \E items \in MessageLists : Settle(i, [ok |-> TRUE, items |-> items])

\* messages.list throws for the i-th unread room: caught, warned, degraded
FetchRejected(i) ==
    /\ pc = "fetching"
    /\ i \in pending
    /\ Settle(i, [ok |-> FALSE, items |-> <<>>])

\* The mutant of Assemble: main goes on without the join, a room whose
\* fetch has not settled carrying no messages.
AssembleEarly ==
    /\ pc = "fetching"
    /\ payload' = <<assemblePayload(normalized, unread,
                        [k \in 1..Len(unread) |->
                            IF k \in DOMAIN results THEN results[k]
                            ELSE WithMessages(unread[k], <<>>, 0, FALSE)],
                        maxRoomsToReturn)>>
    /\ pc' = "writing"
    /\ UNCHANGED <<env, activityHours, maxRoomsToReturn, rooms, meId,
                   normalized, unread, pending, results, outcome, outOfOrder,
                   file, stdout, exitCode, calls, harnessVars>>

\* The join: every fetch has settled, main goes on to the payload
Assemble ==
    /\ pc = "fetching"
    /\ pending = {}
    /\ payload' = <<assemblePayload(normalized, unread,
                                    [k \in 1..Len(unread) |-> results[k]],
                                    maxRoomsToReturn)>>
    /\ pc' = "writing"
    /\ UNCHANGED <<env, activityHours, maxRoomsToReturn, rooms, meId,
                   normalized, unread, pending, results, outcome, outOfOrder,
                   file, stdout, exitCode, calls, harnessVars>>

\* mkdir and writeFile succeed: the path is printed, exit 0
WriteResolved ==
    /\ pc = "writing"
    /\ file' = payload
    /\ Exit(<<[outputPath |-> "output/message-history.json", error |-> NULL]>>, 0)

\* The mutant of WriteRejected: the path is printed all the same.
WriteRejectedPrintsPath ==
    /\ pc = "writing"
    /\ Exit(<<[outputPath |-> "output/message-history.json", error |-> NULL]>>, 1)
    /\ UNCHANGED file

\* mkdir or writeFile rejects: main().catch
WriteRejected ==
    /\ pc = "writing"
    /\ Exit(<<[outputPath |-> NULL, error |-> "EACCES: permission denied"]>>, 1)
    /\ UNCHANGED file

Next ==
    \/ MissingToken
    \/ ReadOptions
    \/ SdkReady
    \/ SdkInitFailed
    \/ ListingRejected
    \/ ListingResolved
    \/ \E i \in 1..MaxRooms : FetchResolved(i)
    \/ \E i \in 1..MaxRooms : FetchRejected(i)
    \/ Assemble
    \/ WriteResolved
    \/ WriteRejected

Spec == Init /\ [][Next]_vars

-----------------------------------------------------------------------------
(* The send flow: main() of scripts/send-message.mjs *)

\* String.prototype.trim()
Trim(s) ==
    LET n == Len(s)
        first == CHOOSE i \in 1..(n + 1) :
                    /\ \A j \in 1..(i - 1) : CharAt(s, j) = " "
                    /\ i = n + 1 \/ CharAt(s, i) # " "
        last == CHOOSE e \in 0..n :
                    /\ \A j \in (e + 1)..n : CharAt(s, j) = " "
                    /\ e = 0 \/ CharAt(s, e) # " "
    IN IF first > last THEN "" ELSE SubSeq(s, first, last)

\* The mutant of isEmail: every recipient is a person.
isEmailAlways(value) == TRUE

isEmail(value) == \E i \in 1..Len(value) : CharAt(value, i) = "@"

\* const to = (opts.to ?? process.env.WEBEX_TO ?? '').trim()
sendTo(e) == Trim(Coalesce(e.cliTo, Coalesce(e.WEBEX_TO, "")))

\* readStdin: the piped lines, joined and trimmed
readStdin(piped) == Trim(piped)

\* let markdown = (opts.message ?? process.env.WEBEX_MESSAGE ?? '').trim();
\* if (!markdown && !process.stdin.isTTY) markdown = await readStdin()
sendMarkdown(e) ==
    LET markdown == Trim(Coalesce(e.cliMessage, Coalesce(e.WEBEX_MESSAGE, "")))
    IN IF markdown = "" /\ ~e.stdinIsTTY THEN readStdin(e.stdin)
       ELSE markdown

\* const payload = isEmail(to) ? { toPersonEmail: to, markdown }
\*                             : { roomId: to, markdown }
createPayload(to, markdown) ==
    IF isEmail(to) THEN [toPersonEmail |-> to, markdown |-> markdown]
    ELSE [roomId |-> to, markdown |-> markdown]

CreateMessage(createArg) == [api |-> "messages.create", arg |-> createArg]

SendEnvs ==
    [token : Tokens,
     cliTo : {NULL, "", "alice@example.com", " room-1 "},
     WEBEX_TO : {NULL, "room-2"},
     cliMessage : {NULL, "", "   ", "**Hello**"},
     WEBEX_MESSAGE : {NULL, "", "from env"},
     stdinIsTTY : BOOLEAN,
     stdin : {"", " piped body "}]

InitSend ==
    /\ pc = "send:start"
    /\ env \in SendEnvs
    /\ activityHours = 0
    /\ maxRoomsToReturn = 0
    /\ rooms = <<>>
    /\ meId = NULL
    /\ normalized = <<>>
    /\ unread = <<>>
    /\ pending = {}
    /\ results = NoResults
    /\ outcome = NoResults
    /\ outOfOrder = FALSE
    /\ payload = <<>>
    /\ file = <<>>
    /\ stdout = <<>>
    /\ exitCode = <<>>
    /\ calls = <<>>
    /\ fn = "none"
    /\ arg = <<>>
    /\ ret = <<>>

SendError(message) == [ok |-> FALSE, error |-> message]

\* main: the credential check
SendMissingToken ==
    /\ pc = "send:start"
    /\ tokenMissing(env.token)
    /\ Exit(<<SendError("WEBEX_ACCESS_TOKEN required")>>, 1)
    /\ UNCHANGED file

\* main: no recipient
SendMissingRecipient ==
    /\ pc = "send:start"
    /\ ~tokenMissing(env.token)
    /\ sendTo(env) = ""
    /\ Exit(<<SendError("--to / -t or WEBEX_TO required")>>, 1)
    /\ UNCHANGED file

\* main: no body from the flag, the environment or piped input
SendMissingBody ==
    /\ pc = "send:start"
    /\ ~tokenMissing(env.token)
    /\ sendTo(env) # ""
    /\ sendMarkdown(env) = ""
    /\ Exit(<<SendError("--message / -m, WEBEX_MESSAGE, or stdin required")>>, 1)
    /\ UNCHANGED file

\* main: credential, recipient and body are there; initWebex
SendReadOptions ==
    /\ pc = "send:start"
    /\ ~tokenMissing(env.token)
    /\ sendTo(env) # ""
    /\ sendMarkdown(env) # ""
    /\ calls' = calls \o <<Handshake(env.token)>>
    /\ pc' = "send:initWebex"
    /\ UNCHANGED <<env, activityHours, maxRoomsToReturn, rooms, meId,
                   normalized, unread, pending, results, outcome, outOfOrder,
                   payload, file, stdout, exitCode, harnessVars>>

\* initWebex throws: the catch warns, prints the error and exits 1
SendSdkInitFailed ==
    /\ pc = "send:initWebex"
    /\ Exit(<<SendError("SDK ready timeout (60000ms)")>>, 1)
    /\ UNCHANGED file

\* initWebex returns; main builds the payload and calls messages.create
SendSdkReady ==
    /\ pc = "send:initWebex"
    /\ calls' = calls \o
                  <<CreateMessage(createPayload(sendTo(env), sendMarkdown(env)))>>
    /\ pc' = "send:creating"
    /\ UNCHANGED <<env, activityHours, maxRoomsToReturn, rooms, meId,
                   normalized, unread, pending, results, outcome, outOfOrder,
                   payload, file, stdout, exitCode, harnessVars>>

\* messages.create resolves: the message is printed, exit 0
SendCreateResolved ==
    /\ pc = "send:creating"
    /\ Exit(<<[ok |-> TRUE,
               message |-> [id |-> "message-1", roomId |-> "room-1",
                            created |-> "1970-01-05T04:00:00Z"],
               error |-> NULL]>>, 0)
    /\ UNCHANGED file

\* The mutant of SendCreateRejected: the call is made again.
SendCreateRejectedRetries ==
    /\ pc = "send:creating"
    /\ Len(calls) < 4
    /\ calls' = calls \o <<calls[Len(calls)]>>
    /\ UNCHANGED <<pc, env, activityHours, maxRoomsToReturn, rooms, meId,
                   normalized, unread, pending, results, outcome, outOfOrder,
                   payload, file, stdout, exitCode, harnessVars>>

\* messages.create rejects: the error is printed, exit 1
SendCreateRejected ==
    /\ pc = "send:creating"
    /\ Exit(<<SendError("request failed")>>, 1)
    /\ UNCHANGED file

NextSend ==
    \/ SendMissingToken
    \/ SendMissingRecipient
    \/ SendMissingBody
    \/ SendReadOptions
    \/ SendSdkInitFailed
    \/ SendSdkReady
    \/ SendCreateResolved
    \/ SendCreateRejected

SpecSend == InitSend /\ [][NextSend]_vars

\* Either script is run.
InitScripts == Init \/ InitSend

NextScripts == Next \/ NextSend

SpecScripts == InitScripts /\ [][NextScripts]_vars

\* What a run does without waiting for ever: its own steps, the settling
\* of every provider call and file operation it awaits, and the end of the
\* handshake by 'error', by the 60 s timer of withTimeout or by
\* !canAuthorize.  'ready' is not among them: it may never fire.
ScriptsProgress ==
    \/ MissingToken
    \/ ReadOptions
    \/ SdkInitFailed
    \/ ListingRejected
    \/ ListingResolved
    \/ \E i \in 1..MaxRooms : FetchResolved(i)
    \/ \E i \in 1..MaxRooms : FetchRejected(i)
    \/ WriteResolved
    \/ WriteRejected
    \/ SendMissingToken
    \/ SendMissingRecipient
    \/ SendMissingBody
    \/ SendReadOptions
    \/ SendSdkInitFailed
    \/ SendCreateResolved
    \/ SendCreateRejected

\* The continuation of main after the join: once every fetch has settled
\* main runs on to the write.  Under Next such a step is an Assemble step.
JoinContinues == pc = "fetching" /\ pending = {} /\ pc' = "writing"

SpecScriptsFair ==
    SpecScripts /\ WF_vars(ScriptsProgress) /\ WF_pc(JoinContinues)

-----------------------------------------------------------------------------
(* The pure functions, each applied once to an input drawn from a bounded  *)
(* set.  The fetch flow does not run in these specifications.              *)

FlowIdle ==
    /\ pc = "idle"
    /\ env = [token |-> NULL, cliHours |-> NULL, cliMaxRooms |-> NULL,
              WEBEX_ACTIVITY_HOURS |-> NULL, WEBEX_MAX_RECENT |-> NULL]
    /\ activityHours = 0
    /\ maxRoomsToReturn = 0
    /\ rooms = <<>>
    /\ meId = NULL
    /\ normalized = <<>>
    /\ unread = <<>>
    /\ pending = {}
    /\ results = NoResults
    /\ outcome = NoResults
    /\ outOfOrder = FALSE
    /\ payload = <<>>
    /\ file = <<>>
    /\ stdout = <<>>
    /\ exitCode = <<>>
    /\ calls = <<>>

\* Date values a provider record may carry: none, the empty string, text
\* that is no date, a date before the epoch, and three dates of the run.
DateValues ==
    {NULL, "", "not-a-date", "1969-12-31T23:00:00Z", "1970-01-03T22:00:00Z",
     "1970-01-05T02:00:00Z", "1970-01-05T04:00:00Z"}

SomeDateValues ==
    {NULL, "", "not-a-date", "1970-01-05T02:00:00Z", "1970-01-05T04:00:00Z"}

\* Raw room records under both generations of field names, each carrying
\* a provider-side isUnread flag.
RawRoomRecords ==
    [id : {"room-1"},
     title : {NULL, "Project sync"},
     type : {NULL, "direct"},
     roomType : {NULL, "team"},
     lastActivityDate : DateValues,
     lastActivity : SomeDateValues,
     lastSeenDate : DateValues,
     lastSeenActivityDate : SomeDateValues,
     isUnread : BOOLEAN]

InitNormalize ==
    /\ FlowIdle
    /\ fn = "normalizeRoom"
    /\ arg \in RawRoomRecords
    /\ ret = <<>>

CallNormalizeRoom ==
    /\ fn = "normalizeRoom"
    /\ ret = <<>>
    /\ ret' = <<normalizeRoom(arg)>>
    /\ UNCHANGED <<flowVars, fn, arg>>

NextNormalize == CallNormalizeRoom

SpecNormalize == InitNormalize /\ [][NextNormalize]_vars

\* A room's message page holds at most MaxMessages messages in a run of the
\* model.
MaxMessages == 2

MessageId(k) == "message-" \o ToString(k)

\* Who wrote a message and when: the user, somebody else or nobody named;
\* no date, text that is no date, thirty hours ago, two hours ago, now.
MessageShapes ==
    [personId : {ME_ID, "person-alice", NULL},
     created : {NULL, "not-a-date", "1970-01-03T22:00:00Z",
                "1970-01-05T02:00:00Z", "1970-01-05T04:00:00Z"}]

RawMessage(k, shape) ==
    [id |-> MessageId(k), personId |-> shape.personId,
     personEmail |-> "alice@example.com", created |-> shape.created]

MessagePages ==
    UNION {{[k \in 1..n |-> RawMessage(k, shapes[k])] :
               shapes \in [1..n -> MessageShapes]} : n \in 0..MaxMessages}

InitMessages ==
    /\ FlowIdle
    /\ fn \in {"getUnreadMessages", "getUnreadMessageCount"}
    /\ arg \in [room : [lastSeenDate : SomeDateValues \cup
                                         {"1970-01-03T22:00:00Z"}],
                messages : MessagePages,
                meId : {ME_ID, NULL}]
    /\ ret = <<>>

CallGetUnreadMessages ==
    /\ fn = "getUnreadMessages"
    /\ ret = <<>>
    /\ ret' = <<getUnreadMessages(arg.messages, arg.room, arg.meId)>>
    /\ UNCHANGED <<flowVars, fn, arg>>

CallGetUnreadMessageCount ==
    /\ fn = "getUnreadMessageCount"
    /\ ret = <<>>
    /\ ret' = <<getUnreadMessageCount(arg.messages, arg.room, arg.meId)>>
    /\ UNCHANGED <<flowVars, fn, arg>>

NextMessages == CallGetUnreadMessages \/ CallGetUnreadMessageCount

SpecMessages == InitMessages /\ [][NextMessages]_vars

\* Who a message of the people index's input is from: nobody named (no
\* email, an empty email), Alice under two person ids, Bob.
PeopleMessageShapes ==
    {[personEmail |-> NULL, personId |-> "person-1"],
     [personEmail |-> "", personId |-> "person-1"],
     [personEmail |-> "alice@example.com", personId |-> "person-1"],
     [personEmail |-> "alice@example.com", personId |-> "person-2"],
     [personEmail |-> "bob@example.com", personId |-> "person-2"]}

PeopleMessage(k, shape) ==
    [id |-> MessageId(k), roomId |-> "room", roomType |-> "group",
     personId |-> shape.personId, personEmail |-> shape.personEmail,
     created |-> "1970-01-05T04:00:00Z", text |-> "hello"]

PeopleMessageLists ==
    UNION {{[k \in 1..n |-> PeopleMessage(k, shapes[k])] :
               shapes \in [1..n -> PeopleMessageShapes]} : n \in 0..MaxMessages}

\* The final rooms handed to buildPeopleAndSlimMessages: two rooms, each
\* with its unread messages.
PeopleRoomLists ==
    {<<[id |-> RoomId(1), unreadMessages |-> first],
       [id |-> RoomId(2), unreadMessages |-> second]>> :
        first \in PeopleMessageLists, second \in PeopleMessageLists}

BodyFields == {"text", "markdown", "html"}

\* Each body field of a message is absent, null, or holds a value.
BodyShapes == [BodyFields -> {"absent", "null", "value"}]

SlimInput(shape, withUpdated) ==
    [f \in {"id", "roomId", "roomType", "personId", "personEmail", "created"}
            \cup {b \in BodyFields : shape[b] # "absent"}
            \cup (IF withUpdated THEN {"updated"} ELSE {}) |->
        IF f \in BodyFields
        THEN (IF shape[f] = "null" THEN NULL ELSE "<" \o f \o ">")
        ELSE "<" \o f \o ">"]

SlimInputs == {SlimInput(shape, u) : shape \in BodyShapes, u \in BOOLEAN}

InitSlimmer ==
    /\ FlowIdle
    /\ \/ fn = "slimMessage" /\ arg \in SlimInputs
       \/ fn = "buildPeopleAndSlimMessages" /\ arg \in PeopleRoomLists
    /\ ret = <<>>

CallSlimMessage ==
    /\ fn = "slimMessage"
    /\ ret = <<>>
    /\ ret' = <<slimMessage(arg)>>
    /\ UNCHANGED <<flowVars, fn, arg>>

\* slimMessage on the message it has slimmed
CallSlimMessageAgain ==
    /\ fn = "slimMessage"
    /\ Len(ret) = 1
    /\ ret' = ret \o <<slimMessage(ret[1])>>
    /\ UNCHANGED <<flowVars, fn, arg>>

CallBuildPeopleAndSlimMessages ==
    /\ fn = "buildPeopleAndSlimMessages"
    /\ ret = <<>>
    /\ ret' = <<[people |-> buildPeople(arg), rooms |-> slimRooms(arg)]>>
    /\ UNCHANGED <<flowVars, fn, arg>>

NextSlimmer ==
    \/ CallSlimMessage
    \/ CallSlimMessageAgain
    \/ CallBuildPeopleAndSlimMessages

SpecSlimmer == InitSlimmer /\ [][NextSlimmer]_vars

\* What --hours / --max-rooms or the environment may hold: nothing, the
\* empty string, integers below, at and above the limits, text that is no
\* number, a number after a blank, a number followed by text.
OptionValues ==
    {NULL, "", "0", "-5", "1", "24", "720", "721", "1000", "1001", "5000",
     "abc", " 12", "12abc"}

InitOptions ==
    /\ FlowIdle
    /\ fn \in {"getActivityHours", "getMaxRoomsToReturn"}
    /\ arg \in [cli : OptionValues, env : OptionValues]
    /\ ret = <<>>

CallGetActivityHours ==
    /\ fn = "getActivityHours"
    /\ ret = <<>>
    /\ ret' = <<getActivityHours(arg.cli, arg.env)>>
    /\ UNCHANGED <<flowVars, fn, arg>>

CallGetMaxRoomsToReturn ==
    /\ fn = "getMaxRoomsToReturn"
    /\ ret = <<>>
    /\ ret' = <<getMaxRoomsToReturn(arg.cli, arg.env)>>
    /\ UNCHANGED <<flowVars, fn, arg>>

NextOptions == CallGetActivityHours \/ CallGetMaxRoomsToReturn

SpecOptions == InitOptions /\ [][NextOptions]_vars

\* What the provider may report for a room handed to the Activity Filter:
\* its type and its last activity (none, two hours ago, now, in an hour).
FilterRoomShapes ==
    [type : {"direct", "group", "team"},
     lastActivityDate : {NULL, "1970-01-05T02:00:00Z", "1970-01-05T04:00:00Z",
                         "1970-01-05T05:00:00Z"},
     lastSeenDate : {"1970-01-03T22:00:00Z"}]

FilterRoomLists ==
    UNION {{[i \in 1..n |-> RawRoom(i, shapes[i])] :
               shapes \in [1..n -> FilterRoomShapes]} : n \in 0..MaxRooms}

InitFilter ==
    /\ FlowIdle
    /\ fn = "normalizeRooms"
    /\ arg \in [rooms : FilterRoomLists,
                hours : {MIN_ACTIVITY_HOURS, DEFAULT_ACTIVITY_HOURS}]
    /\ ret = <<>>

CallNormalizeRooms ==
    /\ fn = "normalizeRooms"
    /\ ret = <<>>
    /\ ret' = <<normalizeRooms(arg.rooms, arg.hours)>>
    /\ UNCHANGED <<flowVars, fn, arg>>

NextFilter == CallNormalizeRooms

SpecFilter == InitFilter /\ [][NextFilter]_vars

-----------------------------------------------------------------------------
(* The claims.  The definitions Claim... state what the specification says *)
(* in its own terms, apart from the operators that model the code.         *)

\* ts of the specification: a missing, empty or unparseable date is 0
ClaimTs(date) == IF date \in DOMAIN DateTable THEN DateTable[date] ELSE 0

\* the first alias that holds a value
ClaimAlias(a, b) ==
    IF a # NULL /\ a # "" THEN a
    ELSE IF b # NULL /\ b # "" THEN b
    ELSE NULL

ClaimFromBot(message) ==
    /\ "personEmail" \in DOMAIN message
    /\ message.personEmail # NULL
    /\ EndsWith(message.personEmail, "@webex.bot")

ClaimHasBotMessage(entry) ==
    \E i \in 1..Len(entry.unreadMessages) :
        ClaimFromBot(entry.unreadMessages[i])

ClaimCutoff == DateNow - activityHours * MsPerHour

ClaimInWindow(room) ==
    /\ room.type \in {"direct", "group"}
    /\ ClaimTs(room.lastActivityDate) >= ClaimCutoff

ClaimRoomUnread(room) ==
    ClaimTs(room.lastActivityDate) > ClaimTs(room.lastSeenDate)

Assembled == payload # <<>>

FinalRooms == payload[1].rooms

FinalIds == {FinalRooms[p].id : p \in 1..Len(FinalRooms)}

C2_RoomWithHumanMessageIsKept ==
    \A k \in DOMAIN results :
        (/\ results[k].type \in {"direct", "group"}
         /\ \E i \in 1..Len(results[k].unreadMessages) :
                ~ClaimFromBot(results[k].unreadMessages[i]))
        => roomHasNoBotMessages(results[k])

\* C3: a room with at least one unread message, all of them a bot's, is
\* never in the final rooms list.
C3_BotOnlyRoomIsExcluded ==
    Assembled =>
        \A k \in DOMAIN results :
            (/\ Len(results[k].unreadMessages) >= 1
             /\ \A i \in 1..Len(results[k].unreadMessages) :
                    ClaimFromBot(results[k].unreadMessages[i]))
            => results[k].id \notin FinalIds

\* C3 witness: the most recently active room, of an allowed type and under
\* the default bound, has two unread messages, both a bot's, and the
\* payload is assembled.
C3_Witness ==
    /\ Assembled
    /\ maxRoomsToReturn = DEFAULT_MAX_RECENT
    /\ 1 \in DOMAIN results
    /\ results[1].type = "direct"
    /\ Len(results[1].unreadMessages) = 2
    /\ \A i \in 1..2 : ClaimFromBot(results[1].unreadMessages[i])
    /\ Len(FinalRooms) >= 1

\* The rooms ahead of the k-th entry that the filters keep
ClaimKeptBefore(k) ==
    {j \in 1..(k - 1) : /\ results[j].type \in {"direct", "group"}
                        /\ ~ClaimHasBotMessage(results[j])}

\* C4: a room whose unreadMessages list is empty is kept by the bot filter
\* and is in the final list unless the bound cuts it off.
C4_EmptyUnreadRoomIsKept ==
    Assembled =>
        \A k \in DOMAIN results :
            results[k].unreadMessages = <<>> =>
                /\ roomHasNoBotMessages(results[k])
                /\ Cardinality(ClaimKeptBefore(k)) < maxRoomsToReturn
                       => results[k].id \in FinalIds

\* C4 witness: a room whose message fetch failed is in the final list.
C4_Witness ==
    /\ Assembled
    /\ \E k \in DOMAIN results :
          /\ ~outcome[k].ok
          /\ results[k].unreadMessages = <<>>
          /\ results[k].id \in FinalIds

\* C5: a failed message fetch leaves an entry for its room, with no unread
\* messages, count 0 and mentionedMe false, in the room's position; the
\* other entries are what their own answers make them; the run produces
\* the payload.
C5_FailedFetchDegradesTheRoom ==
    /\ \A k \in DOMAIN outcome :
          /\ k \in DOMAIN results
          /\ results[k].id = unread[k].id
          /\ ~outcome[k].ok =>
                results[k] = WithMessages(unread[k], <<>>, 0, FALSE)
          /\ outcome[k].ok =>
                results[k] = attachEntry(unread[k], outcome[k], meId)
    /\ pc \in {"fetching", "writing"} => exitCode = <<>>
    /\ Assembled =>
          /\ DOMAIN results = 1..Len(unread)
          /\ payload[1].error = NULL

\* C5 witness: the fetch of the first unread room failed, the second room
\* has its unread message, and the payload is assembled.
C5_Witness ==
    /\ Assembled
    /\ pc = "writing"
    /\ Len(unread) >= 2
    /\ ~outcome[1].ok
    /\ outcome[2].ok
    /\ results[1].unreadMessageCount = 0
    /\ results[2].unreadMessageCount = 1

\* C6: the payload is a function of the rooms and of each room's own
\* answer, whatever the order in which the fetches settled.
C6_PayloadIndependentOfCompletionOrder ==
    Assembled =>
        payload[1] =
            assemblePayload(normalized, unread,
                            [k \in 1..Len(unread) |->
                                attachEntry(unread[k], outcome[k], meId)],
                            maxRoomsToReturn)

\* C6 witness: a later fetch settled before an earlier one, and the payload
\* holds two rooms with different unread messages.
C6_Witness ==
    /\ Assembled
    /\ outOfOrder
    /\ Len(FinalRooms) >= 2
    /\ FinalRooms[1].unreadMessageCount # FinalRooms[2].unreadMessageCount

ClaimMessageUnread(message, room, me) ==
    /\ message.personId # me
    /\ ClaimTs(message.created) > ClaimTs(room.lastSeenDate)

\* C7: a message of the current user is never unread; a message of another
\* sender is unread exactly when ts(created) > ts(lastSeenDate); the count
\* counts exactly those.
C7_OwnMessagesAreNeverUnread ==
    /\ (fn = "getUnreadMessages" /\ ret # <<>>) =>
          /\ \A k \in 1..Len(arg.messages) :
                (\E j \in 1..Len(ret[1]) : ret[1][j].id = arg.messages[k].id)
                <=> ClaimMessageUnread(arg.messages[k], arg.room, arg.meId)
          /\ Len(ret[1]) =
                Cardinality({k \in 1..Len(arg.messages) :
                    ClaimMessageUnread(arg.messages[k], arg.room, arg.meId)})
    /\ (fn = "getUnreadMessageCount" /\ ret # <<>>) =>
          ret[1] = Cardinality({k \in 1..Len(arg.messages) :
                       ClaimMessageUnread(arg.messages[k], arg.room, arg.meId)})

\* C7 witness: of two messages created after lastSeenDate, the user's own
\* is left out and the other sender's is kept.
C7_Witness ==
    /\ fn = "getUnreadMessages"
    /\ ret # <<>>
    /\ arg.meId = ME_ID
    /\ arg.room.lastSeenDate = "1970-01-05T02:00:00Z"
    /\ Len(arg.messages) = 2
    /\ arg.messages[1].personId = ME_ID
    /\ arg.messages[1].created = "1970-01-05T04:00:00Z"
    /\ arg.messages[2].personId = "person-alice"
    /\ arg.messages[2].created = "1970-01-05T04:00:00Z"
    /\ Len(ret[1]) = 1
    /\ ret[1][1].id = arg.messages[2].id

\* C8: a room whose lastActivityDate is earlier than now minus the
\* effective window is not in the final list and not counted in
\* stats.total.
C8_RoomsOutsideTheWindowAreAbsent ==
    Assembled =>
        /\ \A i \in 1..Len(rooms) :
              ClaimTs(rooms[i].lastActivityDate) < ClaimCutoff
                  => rooms[i].id \notin FinalIds
        /\ payload[1].stats.total
              = Cardinality({i \in 1..Len(rooms) : ClaimInWindow(rooms[i])})

\* C8 witness: with a window of one hour, an unread room of allowed type
\* active two hours ago is left out, next to a room that is counted.
C8_Witness ==
    /\ Assembled
    /\ activityHours = 1
    /\ payload[1].stats.total = 1
    /\ \E i \in 1..Len(rooms) :
          /\ rooms[i].type = "group"
          /\ rooms[i].lastActivityDate = "1970-01-05T02:00:00Z"
          /\ ClaimRoomUnread(rooms[i])
          /\ rooms[i].id \notin FinalIds

\* The raw rooms that pass the type and window filters, are unread by
\* their dates, and whose entry passes the bot filter
ClaimSurvivors ==
    {i \in 1..Len(rooms) :
        /\ ClaimInWindow(rooms[i])
        /\ ClaimRoomUnread(rooms[i])
        /\ \E k \in DOMAIN results :
              /\ results[k].id = rooms[i].id
              /\ ~ClaimHasBotMessage(results[k])}

\* Room i comes before room j: later activity, or the same and listed
\* earlier by the provider
ClaimBefore(i, j) ==
    \/ ClaimTs(rooms[i].lastActivityDate) > ClaimTs(rooms[j].lastActivityDate)
    \/ /\ ClaimTs(rooms[i].lastActivityDate) = ClaimTs(rooms[j].lastActivityDate)
       /\ i < j

ClaimRank(i) == 1 + Cardinality({j \in ClaimSurvivors : ClaimBefore(j, i)})

\* C9: the final list is the first min(N, k) of the k survivors of the bot
\* filter, by descending lastActivityDate, equal dates in input order.
C9_FinalListIsTheMostRecentSurvivors ==
    Assembled =>
        /\ Len(FinalRooms) = Min(maxRoomsToReturn, Cardinality(ClaimSurvivors))
        /\ \A i \in ClaimSurvivors :
              ClaimRank(i) <= maxRoomsToReturn
                  => FinalRooms[ClaimRank(i)].id = rooms[i].id

\* C9 witness: with N = 1 and two qualifying rooms, the second of the
\* provider's list being the more recently active, the output is that
\* room alone.
C9_Witness ==
    /\ Assembled
    /\ maxRoomsToReturn = 1
    /\ Cardinality(ClaimSurvivors) = 2
    /\ {1, 2} \subseteq ClaimSurvivors
    /\ ClaimBefore(2, 1)
    /\ Len(FinalRooms) = 1
    /\ FinalRooms[1].id = rooms[2].id

\* C10: stats.total counts the rooms that pass the Activity Filter,
\* stats.read is that number less the rooms unread before the bot filter,
\* stats.unread is the length of the final list.
C10_StatsCountTheStages ==
    Assembled =>
        LET passing == {i \in 1..Len(rooms) : ClaimInWindow(rooms[i])}
            unreadBefore == {i \in passing : ClaimRoomUnread(rooms[i])}
        IN /\ payload[1].stats.total = Cardinality(passing)
           /\ payload[1].stats.read
                 = Cardinality(passing) - Cardinality(unreadBefore)
           /\ payload[1].stats.unread = Len(FinalRooms)

\* C10 witness: a read room and an unread room pass the Activity Filter,
\* the bot filter removes the unread room, and the stats are total 2,
\* read 1, unread 0.
C10_Witness ==
    /\ Assembled
    /\ payload[1].stats.total = 2
    /\ payload[1].stats.read = 1
    /\ payload[1].stats.unread = 0
    /\ Len(unread) = 1
    /\ ClaimHasBotMessage(results[1])

\* The messages of the rooms handed to the people index, as (room, message)
\* positions, and their walking order
ClaimPositions ==
    {pos \in (1..Len(arg)) \X (1..MaxMessages) :
        pos[2] <= Len(arg[pos[1]].unreadMessages)}

ClaimMessageAt(pos) == arg[pos[1]].unreadMessages[pos[2]]

ClaimWalkedBefore(p, q) == p[1] < q[1] \/ (p[1] = q[1] /\ p[2] < q[2])

ClaimBearing(email) ==
    {pos \in ClaimPositions : ClaimMessageAt(pos).personEmail = email}

ClaimEmails ==
    {ClaimMessageAt(pos).personEmail : pos \in ClaimPositions} \ {NULL, ""}

\* C11: the people index has exactly one entry for each email borne by a
\* message of the final rooms, none for a null or empty email, and the
\* entry holds the personId of the first message bearing the email in
\* room-then-message order, whatever later messages say.
C11_PeopleIndexIsFirstWriterWins ==
    (fn = "buildPeopleAndSlimMessages" /\ ret # <<>>) =>
        /\ DOMAIN ret[1].people = ClaimEmails
        /\ \A email \in ClaimEmails :
              \E first \in ClaimBearing(email) :
                  /\ \A other \in ClaimBearing(email) :
                         other = first \/ ClaimWalkedBefore(first, other)
                  /\ ret[1].people[email] = ClaimMessageAt(first).personId

\* C11 witness: the first room's only message is Alice's under one person
\* id, the second room holds a message without email and then Alice's
\* under another person id; the index keeps the first id, and nothing else.
C11_Witness ==
    /\ fn = "buildPeopleAndSlimMessages"
    /\ ret # <<>>
    /\ Len(arg[1].unreadMessages) = 1
    /\ arg[1].unreadMessages[1].personEmail = "alice@example.com"
    /\ arg[1].unreadMessages[1].personId = "person-1"
    /\ Len(arg[2].unreadMessages) = 2
    /\ arg[2].unreadMessages[1].personEmail = NULL
    /\ arg[2].unreadMessages[2].personEmail = "alice@example.com"
    /\ arg[2].unreadMessages[2].personId = "person-2"
    /\ DOMAIN ret[1].people = {"alice@example.com"}
    /\ ret[1].people["alice@example.com"] = "person-1"

\* C12: slimming a slimmed message changes nothing, and a slimmed message
\* has none of roomId, personId, roomType, created, updated.
C12_SlimMessageIsIdempotent ==
    fn = "slimMessage" =>
        /\ Len(ret) >= 1 =>
              DOMAIN ret[1] \cap
                  {"roomId", "personId", "roomType", "created", "updated"} = {}
        /\ Len(ret) = 2 => ret[2] = ret[1]

\* C12 witness: a message with text and markdown, no html, and an updated
\* field was slimmed twice; markdown is what is left of the body.
C12_Witness ==
    /\ fn = "slimMessage"
    /\ Len(ret) = 2
    /\ {"text", "markdown", "updated"} \subseteq DOMAIN arg
    /\ arg.text # NULL
    /\ arg.markdown # NULL
    /\ "html" \notin DOMAIN arg
    /\ "markdown" \in DOMAIN ret[2]
    /\ "text" \notin DOMAIN ret[2]

\* The messages of the k-th unread room's page that the specification
\* calls unread, as positions in the page
ClaimUnreadOf(k) ==
    IF outcome[k].ok
    THEN {i \in 1..Len(outcome[k].items) :
             ClaimMessageUnread(outcome[k].items[i], unread[k], meId)}
    ELSE {}

\* The latest of them by created
ClaimLatestOf(k) ==
    {i \in ClaimUnreadOf(k) :
        \A j \in ClaimUnreadOf(k) :
            ClaimTs(outcome[k].items[j].created)
                <= ClaimTs(outcome[k].items[i].created)}

ClaimMentions(message, me) ==
    \E n \in 1..Len(message.mentionedPeople) : message.mentionedPeople[n] = me

\* C14: for a room whose messages were resolved, mentionedMe is true
\* exactly when one of its unread messages mentions the current user; the
\* mentions of read and of self-authored messages do not count; the final
\* list carries the flag unchanged.
C14_MentionedMeLooksAtUnreadMessagesOnly ==
    /\ \A k \in DOMAIN outcome :
          outcome[k].ok =>
              (results[k].mentionedMe <=>
                  \E i \in ClaimUnreadOf(k) :
                      ClaimMentions(outcome[k].items[i], meId))
    /\ Assembled =>
          \A p \in 1..Len(FinalRooms) : \A k \in DOMAIN results :
              results[k].id = FinalRooms[p].id =>
                  FinalRooms[p].mentionedMe = results[k].mentionedMe

\* C14 witness: one room's unread message mentions the user and the room
\* is flagged; the other room's page mentions the user in the user's own
\* message and in a read message only, and the room is not flagged; both
\* are in the final list.
C14_Witness ==
    /\ Assembled
    /\ Len(FinalRooms) = 2
    /\ FinalRooms[1].mentionedMe
    /\ FinalRooms[1].unreadMessageCount = 1
    /\ ~FinalRooms[2].mentionedMe
    /\ outcome[2].ok
    /\ Len(outcome[2].items) = 2
    /\ \A i \in 1..2 : ClaimMentions(outcome[2].items[i], meId)

ClaimContainsAt(s) == \E i \in 1..Len(s) : SubSeq(s, i, i) = "@"

ClaimCreateCalls == {n \in 1..Len(calls) : calls[n].api = "messages.create"}

\* C15: the message creation call carries toPersonEmail and no roomId when
\* the recipient contains '@', roomId and no toPersonEmail otherwise;
\* never both.
C15_TargetFieldFollowsTheRecipient ==
    \A n \in ClaimCreateCalls :
        /\ ~({"toPersonEmail", "roomId"} \subseteq DOMAIN calls[n].arg)
        /\ IF ClaimContainsAt(sendTo(env))
           THEN /\ "toPersonEmail" \in DOMAIN calls[n].arg
                /\ "roomId" \notin DOMAIN calls[n].arg
                /\ calls[n].arg.toPersonEmail = sendTo(env)
           ELSE /\ "roomId" \in DOMAIN calls[n].arg
                /\ "toPersonEmail" \notin DOMAIN calls[n].arg
                /\ calls[n].arg.roomId = sendTo(env)

\* C15 witness: the recipient of the flag is an opaque id, the environment
\* names none, and the message went out with roomId.
C15_Witness ==
    /\ "cliTo" \in DOMAIN env
    /\ env.cliTo = " room-1 "
    /\ exitCode = <<0>>
    /\ Len(calls) = 2
    /\ calls[2].api = "messages.create"
    /\ DOMAIN calls[2].arg = {"roomId", "markdown"}
    /\ calls[2].arg.roomId = "room-1"

ClaimLastLine == stdout[Len(stdout)]

\* C16: a run of the send flow makes the message creation call at most
\* once; a run that ends with exit code 0 has made it exactly once; a run
\* whose call failed has reported the failure and ended with a non-zero
\* code.
C16_MessageIsCreatedAtMostOnce ==
    /\ Cardinality(ClaimCreateCalls) <= 1
    /\ exitCode = <<0>> => Cardinality(ClaimCreateCalls) = 1
    /\ pc = "send:creating" => Cardinality(ClaimCreateCalls) = 1
    /\ (pc = "exited" /\ ClaimCreateCalls # {} /\ exitCode # <<0>>) =>
          /\ exitCode = <<1>>
          /\ stdout # <<>>
          /\ ClaimLastLine.ok = FALSE
          /\ ClaimLastLine.error # NULL

\* C16 witness: the creation call was rejected; the run has ended with
\* code 1, the error on stdout, and one creation call made.
C16_Witness ==
    /\ pc = "exited"
    /\ exitCode = <<1>>
    /\ Cardinality(ClaimCreateCalls) = 1
    /\ stdout # <<>>
    /\ ClaimLastLine.error = "request failed"

ClaimNonEmpty(v) == v # NULL /\ \E i \in 1..Len(v) : SubSeq(v, i, i) # " "

\* C17: the body sent is the first non-empty of flag, environment, piped
\* input: with an empty or blank --message and a non-empty WEBEX_MESSAGE
\* the body sent is WEBEX_MESSAGE, and the run does not end for want of a
\* body.
C17_FirstNonEmptyBodyWins ==
    ("cliMessage" \in DOMAIN env
        /\ env.cliMessage # NULL /\ ~ClaimNonEmpty(env.cliMessage)
        /\ ClaimNonEmpty(env.WEBEX_MESSAGE)) =>
        /\ \A n \in ClaimCreateCalls :
               calls[n].arg.markdown = env.WEBEX_MESSAGE
        /\ (pc = "exited" /\ ~tokenMissing(env.token) /\ sendTo(env) # "")
               => ClaimCreateCalls # {}

ClaimSendFlow == "cliTo" \in DOMAIN env

ClaimCredentialMissing ==
    env.token = NULL \/ \A i \in 1..Len(env.token) : SubSeq(env.token, i, i) = " "

\* A configuration error as the scripts see it: no credential; in the send
\* flow, no recipient or no body
ClaimConfigurationError ==
    \/ ClaimCredentialMissing
    \/ ClaimSendFlow /\ (sendTo(env) = "" \/ sendMarkdown(env) = "")

\* C18: on a configuration error the run makes no provider call (no
\* handshake, listing, message listing or message creation), never gets
\* past its start, and ends with a non-zero code and the error on stdout.
C18_ConfigurationErrorMakesNoCall ==
    ClaimConfigurationError =>
        /\ calls = <<>>
        /\ pc \in {"start", "send:start", "exited"}
        /\ file = <<>>
        /\ pc = "exited" =>
              /\ exitCode = <<1>>
              /\ stdout # <<>>
              /\ ClaimLastLine.error # NULL

\* C18 witness: the send flow, with credential and recipient and a blank
\* --message on a terminal, has ended with code 1 and no call made.
C18_Witness ==
    /\ ClaimSendFlow
    /\ ~ClaimCredentialMissing
    /\ env.cliTo = "alice@example.com"
    /\ env.cliMessage = "   "
    /\ env.stdinIsTTY
    /\ pc = "exited"
    /\ exitCode = <<1>>
    /\ calls = <<>>

\* C19: a run that ends with a non-zero code has printed a JSON line with
\* error populated as its last line; in the fetch flow that line is
\* {outputPath: null, error: message}.
C19_FatalPathsPrintTheErrorEnvelope ==
    (pc = "exited" /\ exitCode # <<0>>) =>
        /\ stdout # <<>>
        /\ ClaimLastLine.error # NULL
        /\ ~ClaimSendFlow =>
              /\ DOMAIN ClaimLastLine = {"outputPath", "error"}
              /\ ClaimLastLine.outputPath = NULL

ClaimHandshakeOnly(log) == \A n \in 1..Len(log) : log[n].api = "init"

\* C20: a run whose handshake fails (error, no ready within the bound, not
\* authorized) ends there with a non-zero code, having issued no call but
\* the handshake and written no file.
C20_HandshakeFailureAbortsBeforeAnyCall ==
    [][(pc \in {"initWebex", "send:initWebex"} /\ pc' = "exited") =>
          /\ exitCode' = <<1>>
          /\ ClaimHandshakeOnly(calls')
          /\ file' = <<>>]_vars

\* C20 witness: the fetch flow, with a credential, has ended with code 1
\* after the handshake alone, no file written.
C20_Witness ==
    /\ ~ClaimSendFlow
    /\ ~ClaimCredentialMissing
    /\ pc = "exited"
    /\ exitCode = <<1>>
    /\ Len(calls) = 1
    /\ calls[1].api = "init"
    /\ file = <<>>

\* The integers among the option values
ClaimIntegerOf ==
    [raw \in {"0", "-5", "1", "24", "720", "721", "1000", "1001", "5000"} |->
        CASE raw = "0" -> 0
          [] raw = "-5" -> 0 - 5
          [] raw = "1" -> 1
          [] raw = "24" -> 24
          [] raw = "720" -> 720
          [] raw = "721" -> 721
          [] raw = "1000" -> 1000
          [] raw = "1001" -> 1001
          [] raw = "5000" -> 5000]

\* The value requested: the flag's if there is one, else the environment's
ClaimRequested == IF arg.cli # NULL THEN arg.cli ELSE arg.env

ClaimClamp(n, low, high) == IF n < low THEN low ELSE IF n > high THEN high ELSE n

\* C21: the effective window is the requested number of hours clamped to
\* [1, 720] (above 720 gives 720, below 1 gives 1), and 24 when neither
\* flag nor environment supplies a value.
C21_ActivityHoursAreClamped ==
    (fn = "getActivityHours" /\ ret # <<>>) =>
        /\ ClaimRequested = NULL => ret[1] = 24
        /\ ClaimRequested \in DOMAIN ClaimIntegerOf =>
              ret[1] = ClaimClamp(ClaimIntegerOf[ClaimRequested], 1, 720)

ClaimSuccessLine(line) ==
    \/ "outputPath" \in DOMAIN line /\ line.outputPath # NULL
    \/ "ok" \in DOMAIN line /\ line.ok = TRUE

C23_MissingLastSeenMeansUnread ==
    (fn = "normalizeRoom" /\ ret # <<>>) =>
        LET seen == ClaimAlias(arg.lastSeenDate, arg.lastSeenActivityDate)
            activity == ClaimAlias(arg.lastActivityDate, arg.lastActivity)
        IN IF seen = NULL THEN ret[1].isUnread = TRUE
           ELSE ret[1].isUnread = (ClaimTs(activity) > ClaimTs(seen))

\* C24: every room that survives the Activity Filter has its
\* lastActivityDate in [now - window, now]; a room active after now is
\* left out, as is a room active before the cutoff.
C24_SurvivorsAreInsideTheClosedWindow ==
    (fn = "normalizeRooms" /\ ret # <<>>) =>
        \A p \in 1..Len(ret[1]) :
            /\ ClaimTs(ret[1][p].lastActivityDate)
                   >= DateNow - arg.hours * MsPerHour
            /\ ClaimTs(ret[1][p].lastActivityDate) <= DateNow

ClaimAllSettled == pending = {} /\ DOMAIN outcome = 1..Len(unread)

\* C25: the payload is assembled, the file written and the result line
\* printed only once every message fetch launched has completed or failed.
C25_NothingIsEmittedBeforeTheJoin ==
    [][/\ (payload' # payload /\ payload' # <<>>) => ClaimAllSettled
       /\ file' # file => (pc = "writing" /\ ClaimAllSettled)
       /\ (stdout' # stdout /\ pc \in {"fetching", "writing"}) =>
              (pc = "writing" /\ ClaimAllSettled)]_vars

\* C25 witness: two fetches were launched, and the run has written a file
\* with both rooms and printed its path.
C25_Witness ==
    /\ pc = "exited"
    /\ exitCode = <<0>>
    /\ Len(calls) = 5
    /\ calls[4].api = "messages.list"
    /\ calls[5].api = "messages.list"
    /\ file # <<>>
    /\ Len(file[1].rooms) = 2
    /\ ClaimLastLine.outputPath # NULL

ClaimHasValue(message, f) == f \in DOMAIN message /\ message[f] # NULL

ClaimBodyKept(message) ==
    {f \in {"text", "markdown", "html"} : ClaimHasValue(message, f)}

\* C26: a slimmed message holds at most one of text, markdown, html: html
\* alone when html was there, else markdown alone when markdown was there,
\* else text as it was.
C26_RichestBodyFieldWins ==
    (fn = "slimMessage" /\ Len(ret) >= 1) =>
        /\ Cardinality(ClaimBodyKept(ret[1])) <= 1
        /\ IF ClaimHasValue(arg, "html")
           THEN /\ ClaimBodyKept(ret[1]) = {"html"}
                /\ ret[1].html = arg.html
                /\ {"markdown", "text"} \cap DOMAIN ret[1] = {}
           ELSE IF ClaimHasValue(arg, "markdown")
           THEN /\ ClaimBodyKept(ret[1]) = {"markdown"}
                /\ ret[1].markdown = arg.markdown
                /\ "text" \notin DOMAIN ret[1]
           ELSE /\ "text" \in DOMAIN ret[1] <=> "text" \in DOMAIN arg
                /\ "text" \in DOMAIN arg => ret[1].text = arg.text

\* C26 witness: a message with text, markdown and html is slimmed to html
\* alone.
C26_Witness ==
    /\ fn = "slimMessage"
    /\ Len(ret) = 1
    /\ ClaimBodyKept(arg) = {"text", "markdown", "html"}
    /\ DOMAIN ret[1] \cap {"text", "markdown", "html"} = {"html"}

ClaimResolvedIds ==
    {calls[n].arg.roomId : n \in {m \in 1..Len(calls) :
                                     calls[m].api = "messages.list"}}

\* C27: every room of the final list has type direct or group and isUnread
\* true; a room of another type and a room whose lastActivityDate is not
\* later than its lastSeenDate has no message fetch and is not in the
\* output.
C27_OnlyUnreadRoomsOfAllowedTypeGoOn ==
    /\ \A i \in 1..Len(rooms) :
          (rooms[i].type \notin {"direct", "group"} \/ ~ClaimRoomUnread(rooms[i]))
          => /\ rooms[i].id \notin ClaimResolvedIds
             /\ Assembled => rooms[i].id \notin FinalIds
    /\ Assembled =>
          \A p \in 1..Len(FinalRooms) :
              /\ FinalRooms[p].type \in {"direct", "group"}
              /\ FinalRooms[p].isUnread = TRUE

\* C27 witness: the provider lists a team room with unread activity and a
\* direct room with unread activity; one fetch is made and the output is
\* the direct room.
C27_Witness ==
    /\ Assembled
    /\ Len(rooms) = 2
    /\ rooms[1].type = "team"
    /\ ClaimRoomUnread(rooms[1])
    /\ rooms[1].lastActivityDate = "1970-01-05T04:00:00Z"
    /\ rooms[2].type = "direct"
    /\ ClaimResolvedIds = {rooms[2].id}
    /\ FinalIds = {rooms[2].id}

ClaimPathLines(lines) ==
    {n \in 1..Len(lines) :
        "outputPath" \in DOMAIN lines[n] /\ lines[n].outputPath # NULL}

\* C29: a line with a non-null outputPath is on stdout only when the file
\* has been written; a failed write leaves no such line, a last line with
\* outputPath null and an error, and a non-zero exit code.
C29_PathIsPrintedAfterTheWrite ==
    [][/\ ClaimPathLines(stdout') # {} => (file' # <<>> /\ exitCode' = <<0>>)
       /\ (pc = "writing" /\ file' = <<>>) =>
              /\ ClaimPathLines(stdout') = {}
              /\ stdout' # <<>>
              /\ stdout'[Len(stdout')].outputPath = NULL
              /\ stdout'[Len(stdout')].error # NULL
              /\ exitCode' = <<1>>]_vars

\* C29 witness: the write failed; the run has ended with code 1, no file,
\* and the line {outputPath: null, error: EACCES}.
C29_Witness ==
    /\ pc = "exited"
    /\ exitCode = <<1>>
    /\ file = <<>>
    /\ Len(stdout) = 1
    /\ stdout[1].error = "EACCES: permission denied"
    /\ stdout[1].outputPath = NULL

ClaimIds(messages) == [n \in 1..Len(messages) |-> messages[n].id]

====
